---- MODULE Spec2Model ----
(***************************************************************************)
(* Structure-aware chunker of src/src/rag/web_scraping.py.                 *)
(*                                                                         *)
(* A text (a Python str) is a sequence of atoms.  An atom is one           *)
(* whitespace-delimited word, or a line break:                             *)
(*     [id |-> where the word stands in the document (ghost),              *)
(*      k  |-> the word, a member of Vocabulary,                           *)
(*      n  |-> how many trailing tokens of the word the atom holds]        *)
(* n = Weight(k) for a whole word; decoding a token suffix (last_n_tokens) *)
(* can leave a word's tail, n < Weight(k).  Single spaces between atoms    *)
(* are implicit, "\n" is an atom of its own.  The tokenizer (tiktoken, an  *)
(* external library) is modelled as cutting every word into Weight(k)      *)
(* tokens, the space before a word belonging to the word's first token.    *)
(*                                                                         *)
(* Spec      is extract_and_chunk: the extraction, chunk_by_heading walking *)
(*           a tree one element per step, the chunk ids; call after call.  *)
(* SpecFn    is split_large_text, merge_small_remainders, apply_overlap    *)
(*           and detect_scenario_with_groq (utils.py, chunking.py), each   *)
(*           called alone.                                                 *)
(* SpecSplit is split_large_text run one loop iteration per step.          *)
(***************************************************************************)
EXTENDS Integers, Sequences, FiniteSets, TLC

\* ------------------------------------------------------------------ bounds
MaxLen == 4
MaxBudget == 3
MaxOverflow == 1
MaxElems == 3
MaxReply == 2

\* -------------------------------------------------------------- tokenizer
Words == {"a", "b.", "ccc"}
Vocabulary == Words \cup {"\n"}

Weight(k) ==
    CASE k = "a" -> 1
      [] k = "b." -> 2
      [] k = "ccc" -> 3
      [] k = "\n" -> 1

\* the word ends in one of . ! ? ; :
Terminal(k) == k = "b."

IsSpace(a) == a.k = "\n"

AtomTokens(a) ==
    [j \in 1..a.n |-> [id |-> a.id, k |-> a.k, j |-> Weight(a.k) - a.n + j]]

RECURSIVE encode(_)
encode(text) ==
    IF text = <<>> THEN <<>> ELSE AtomTokens(Head(text)) \o encode(Tail(text))

RECURSIVE RunLen(_, _)
RunLen(toks, id) ==
    IF toks = <<>> \/ Head(toks).id # id THEN 0 ELSE 1 + RunLen(Tail(toks), id)

RECURSIVE decode(_)
decode(toks) ==
    IF toks = <<>> THEN <<>>
    ELSE LET t == Head(toks)
             run == RunLen(toks, t.id)
         IN  <<[id |-> t.id, k |-> t.k, n |-> run]>>
               \o decode(SubSeq(toks, run + 1, Len(toks)))

estimate_tokens(text) == Len(encode(text))

\* str.strip()
RECURSIVE LStrip(_)
LStrip(text) ==
    IF text # <<>> /\ IsSpace(Head(text)) THEN LStrip(Tail(text)) ELSE text

RECURSIVE RStrip(_)
RStrip(text) ==
    IF text # <<>> /\ IsSpace(text[Len(text)])
    THEN RStrip(SubSeq(text, 1, Len(text) - 1)) ELSE text

Strip(text) == RStrip(LStrip(text))

\* " ".join(buf)
RECURSIVE JoinSp(_)
JoinSp(buf) == IF buf = <<>> THEN <<>> ELSE Head(buf) \o JoinSp(Tail(buf))

\* a faulty variant: toks[:n]
FirstSlice(toks, n) == IF n >= Len(toks) THEN toks ELSE SubSeq(toks, 1, n)

\* toks[-n:]
LastSlice(toks, n) ==
    IF n >= Len(toks) THEN toks ELSE SubSeq(toks, Len(toks) - n + 1, Len(toks))

last_n_tokens(text, n) ==
    IF n <= 0 THEN <<>>
    ELSE LET toks == encode(text)
         IN  IF toks = <<>> THEN <<>> ELSE decode(LastSlice(toks, n))

\* ------------------------------------------------------- split_large_text
\* [x for x in pieces if x.strip()], each stripped
RECURSIVE StripAll(_)
StripAll(pieces) ==
    IF pieces = <<>> THEN <<>>
    ELSE (IF Strip(Head(pieces)) = <<>> THEN <<>> ELSE <<Strip(Head(pieces))>>)
           \o StripAll(Tail(pieces))

\* text.split("\n")
RECURSIVE SplitNewline(_, _)
SplitNewline(text, cur) ==
    IF text = <<>> THEN <<cur>>
    ELSE IF IsSpace(Head(text)) THEN <<cur>> \o SplitNewline(Tail(text), <<>>)
    ELSE SplitNewline(Tail(text), Append(cur, Head(text)))

\* _SENT_SPLIT_RE.split(paragraph): a cut at the whitespace after . ! ? ; :
RECURSIVE SentSplit(_, _)
SentSplit(text, cur) ==
    IF text = <<>> THEN <<cur>>
    ELSE LET a == Head(text)
         IN  IF IsSpace(a) THEN SentSplit(Tail(text), Append(cur, a))
             ELSE IF Terminal(a.k) /\ Tail(text) # <<>>
             THEN <<Append(cur, a)>> \o SentSplit(Tail(text), <<>>)
             ELSE SentSplit(Tail(text), Append(cur, a))

split_into_sentences(paragraph) ==
    IF Strip(paragraph) = <<>> THEN <<>>
    ELSE StripAll(SentSplit(Strip(paragraph), <<>>))

\* str.split(): the words of a text
RECURSIVE SplitWords(_)
SplitWords(text) ==
    IF text = <<>> THEN <<>>
    ELSE (IF IsSpace(Head(text)) THEN <<>> ELSE <<<<Head(text)>>>>)
           \o SplitWords(Tail(text))

flush_buffer(chunks, buf) ==
    LET joined == Strip(JoinSp(buf))
    IN  IF joined # <<>> THEN Append(chunks, joined) ELSE chunks

\* a faulty variant: the word that overflowed is flushed with the buffer (no pop)
HardStepNoPop(st, w, max_tokens) ==
    LET b1 == Append(st.buf, w)
    IN  IF estimate_tokens(JoinSp(b1)) > max_tokens
        THEN [buf |-> <<w>>, chunks |-> flush_buffer(st.chunks, b1)]
        ELSE [buf |-> b1, chunks |-> st.chunks]

\* the word loop: st = [buf, chunks]
HardStep(st, w, max_tokens) ==
    LET b1 == Append(st.buf, w)
    IN  IF estimate_tokens(JoinSp(b1)) > max_tokens
        THEN [buf |-> <<w>>,
              chunks |-> IF st.buf # <<>> THEN flush_buffer(st.chunks, st.buf)
                         ELSE st.chunks]
        ELSE [buf |-> b1, chunks |-> st.chunks]

RECURSIVE HardLoop(_, _, _)
HardLoop(st, words, max_tokens) ==
    IF words = <<>> THEN st
    ELSE HardLoop(HardStep(st, Head(words), max_tokens), Tail(words), max_tokens)

\* words packed from an empty hard_buf, the rest of hard_buf flushed at the end
hard_pack(chunks, text, max_tokens) ==
    LET st == HardLoop([buf |-> <<>>, chunks |-> chunks], SplitWords(text), max_tokens)
    IN  IF st.buf # <<>> THEN flush_buffer(st.chunks, st.buf) ELSE st.chunks

\* the sentence loop: st = [buf, chunks]
SentStep(st, s, max_tokens) ==
    LET b1 == Append(st.buf, s)
    IN  IF estimate_tokens(JoinSp(b1)) > max_tokens
        THEN LET flushed == IF st.buf # <<>> THEN flush_buffer(st.chunks, st.buf)
                            ELSE st.chunks
             IN  IF estimate_tokens(s) > max_tokens
                 THEN [buf |-> <<>>, chunks |-> hard_pack(flushed, s, max_tokens)]
                 ELSE [buf |-> <<s>>, chunks |-> flushed]
        ELSE [buf |-> b1, chunks |-> st.chunks]

RECURSIVE SentLoop(_, _, _)
SentLoop(st, sents, max_tokens) ==
    IF sents = <<>> THEN st
    ELSE SentLoop(SentStep(st, Head(sents), max_tokens), Tail(sents), max_tokens)

\* a faulty variant: the paragraph that overflowed the buffer is not kept
ParaStepDropping(st, p, max_tokens) ==
    LET b1 == Append(st.buf, p)
    IN  IF estimate_tokens(JoinSp(b1)) > max_tokens
        THEN [buf |-> <<>>,
              chunks |-> IF st.buf # <<>> THEN flush_buffer(st.chunks, st.buf)
                         ELSE st.chunks]
        ELSE [buf |-> b1, chunks |-> st.chunks]

\* the paragraph loop: st = [buf, chunks]
ParaStep(st, p, max_tokens) ==
    LET b1 == Append(st.buf, p)
    IN  IF estimate_tokens(JoinSp(b1)) > max_tokens
        THEN LET flushed == IF st.buf # <<>> THEN flush_buffer(st.chunks, st.buf)
                            ELSE st.chunks
             IN  IF estimate_tokens(p) > max_tokens
                 THEN LET ss == SentLoop([buf |-> <<>>, chunks |-> flushed],
                                         split_into_sentences(p), max_tokens)
                      IN  [buf |-> <<>>,
                           chunks |-> IF ss.buf # <<>>
                                      THEN flush_buffer(ss.chunks, ss.buf)
                                      ELSE ss.chunks]
                 ELSE [buf |-> <<p>>, chunks |-> flushed]
        ELSE [buf |-> b1, chunks |-> st.chunks]

RECURSIVE ParaLoop(_, _, _)
ParaLoop(st, paras, max_tokens) ==
    IF paras = <<>> THEN st
    ELSE ParaLoop(ParaStep(st, Head(paras), max_tokens), Tail(paras), max_tokens)

\* the verification pass over the produced chunks
RECURSIVE Cleaned(_, _, _)
Cleaned(cleaned, chunks, max_tokens) ==
    IF chunks = <<>> THEN cleaned
    ELSE LET c == Strip(Head(chunks))
         IN  IF c = <<>> THEN Cleaned(cleaned, Tail(chunks), max_tokens)
             ELSE IF estimate_tokens(c) <= max_tokens
             THEN Cleaned(Append(cleaned, c), Tail(chunks), max_tokens)
             ELSE Cleaned(hard_pack(cleaned, c, max_tokens), Tail(chunks), max_tokens)

split_large_text(text, max_tokens) ==
    LET t == Strip(text)
    IN  IF t = <<>> THEN <<>>
        ELSE LET ps == StripAll(SplitNewline(t, <<>>))
                 paragraphs == IF ps = <<>> THEN <<t>> ELSE ps
                 st == ParaLoop([buf |-> <<>>, chunks |-> <<>>], paragraphs, max_tokens)
                 chunks == IF st.buf # <<>> THEN flush_buffer(st.chunks, st.buf)
                           ELSE st.chunks
             IN  Cleaned(<<>>, chunks, max_tokens)

\* ------------------------------------------------- merge_small_remainders
\* a faulty variant: an undersized part is never joined to the output before it
MergeStepNeverMerges(merged, raw, min_tokens, soft_max) ==
    LET part == Strip(raw)
    IN  IF part = <<>> THEN merged ELSE Append(merged, part)

\* a faulty variant: a small part is joined whatever the joined count
MergeStepNoCeiling(merged, raw, min_tokens, soft_max) ==
    LET part == Strip(raw)
    IN  IF part = <<>> THEN merged
        ELSE IF merged = <<>> THEN <<part>>
        ELSE IF estimate_tokens(part) < min_tokens
        THEN [merged EXCEPT ![Len(merged)] = merged[Len(merged)] \o part]
        ELSE Append(merged, part)

MergeStep(merged, raw, min_tokens, soft_max) ==
    LET part == Strip(raw)
    IN  IF part = <<>> THEN merged
        ELSE IF merged = <<>> THEN <<part>>
        ELSE IF estimate_tokens(part) < min_tokens
        THEN LET candidate == merged[Len(merged)] \o part
             IN  IF estimate_tokens(candidate) <= soft_max
                 THEN [merged EXCEPT ![Len(merged)] = candidate]
                 ELSE Append(merged, part)
        ELSE Append(merged, part)

RECURSIVE MergeLoop(_, _, _, _)
MergeLoop(merged, parts, min_tokens, soft_max) ==
    IF parts = <<>> THEN merged
    ELSE MergeLoop(MergeStep(merged, Head(parts), min_tokens, soft_max),
                   Tail(parts), min_tokens, soft_max)

merge_small_remainders(parts, min_tokens, max_tokens, merge_overflow) ==
    MergeLoop(<<>>, parts, min_tokens, max_tokens + merge_overflow)

\* ---------------------------------------------------------- apply_overlap
\* a faulty variant: the overlap is put after the part
WithOverlapBehind(ov, cur) == IF ov # <<>> THEN Strip(cur \o ov) ELSE Strip(cur)

\* f"{ov} {cur}".strip() if ov else cur.strip()
WithOverlap(ov, cur) == IF ov # <<>> THEN Strip(ov \o cur) ELSE Strip(cur)

\* a faulty variant: after a candidate that fits, the search goes on below it
RECURSIVE BinarySearchDownwards(_, _, _, _, _, _)
BinarySearchDownwards(lo, hi, best, prev, cur, soft_max) ==
    IF lo > hi THEN best
    ELSE LET mid == (lo + hi) \div 2
             cand == WithOverlap(Strip(last_n_tokens(prev, mid)), cur)
         IN  IF estimate_tokens(cand) <= soft_max
             THEN BinarySearchDownwards(lo, mid - 1, cand, prev, cur, soft_max)
             ELSE BinarySearchDownwards(lo, mid - 1, best, prev, cur, soft_max)

\* while lo <= hi: ...; returns best
RECURSIVE BinarySearch(_, _, _, _, _, _)
BinarySearch(lo, hi, best, prev, cur, soft_max) ==
    IF lo > hi THEN best
    ELSE LET mid == (lo + hi) \div 2
             cand == WithOverlap(Strip(last_n_tokens(prev, mid)), cur)
         IN  IF estimate_tokens(cand) <= soft_max
             THEN BinarySearch(mid + 1, hi, cand, prev, cur, soft_max)
             ELSE BinarySearch(lo, mid - 1, best, prev, cur, soft_max)

\* a faulty variant: a candidate over the soft ceiling is given up without the search
OverlapStepNoSearch(prev, cur, overlap_tokens, soft_max) ==
    LET candidate == WithOverlap(Strip(last_n_tokens(prev, overlap_tokens)), cur)
    IN  IF estimate_tokens(candidate) > soft_max /\ overlap_tokens > 0
        THEN Strip(cur)
        ELSE candidate

\* a faulty variant: the overlap is put before the part whatever the ceiling
OverlapStepNoCeiling(prev, cur, overlap_tokens, soft_max) ==
    WithOverlap(Strip(last_n_tokens(prev, overlap_tokens)), cur)

OverlapStep(prev, cur, overlap_tokens, soft_max) ==
    LET candidate == WithOverlap(Strip(last_n_tokens(prev, overlap_tokens)), cur)
    IN  IF estimate_tokens(candidate) > soft_max /\ overlap_tokens > 0
        THEN LET best == BinarySearch(0, overlap_tokens, <<>>, prev, cur, soft_max)
             IN  IF best # <<>> THEN best ELSE Strip(cur)
        ELSE candidate

RECURSIVE OverlapLoop(_, _, _, _, _)
OverlapLoop(out, parts, i, overlap_tokens, soft_max) ==
    IF i > Len(parts) THEN out
    ELSE OverlapLoop(Append(out, OverlapStep(out[Len(out)], parts[i],
                                             overlap_tokens, soft_max)),
                     parts, i + 1, overlap_tokens, soft_max)

apply_overlap(parts, overlap_tokens, max_tokens, merge_overflow) ==
    IF overlap_tokens <= 0 \/ Len(parts) <= 1 THEN parts
    ELSE OverlapLoop(<<parts[1]>>, parts, 2, overlap_tokens,
                     max_tokens + merge_overflow)

\* ------------------------------------------------------- chunk_by_heading
\* a heading_path: " > ".join(path), then " (part i)" when part > 0
HeadingPath(path, part) == [path |-> path, part |-> part]

Chunk(heading_path, text, tokens) ==
    [heading_path |-> heading_path, text |-> text, tokens |-> tokens]

\* a faulty variant: the parts of a section are put before the chunks already there
emit_parts_in_front(chs, path, parts) ==
    [i \in 1..Len(parts) |->
        Chunk(HeadingPath(path, i), parts[i], estimate_tokens(parts[i]))] \o chs

\* a faulty variant: the count stored is the number of words, not of tokens
emit_parts_word_count(chs, path, parts) ==
    chs \o [i \in 1..Len(parts) |-> Chunk(HeadingPath(path, i), parts[i], Len(parts[i]))]

\* for i, part in enumerate(parts, 1): chunks.append(...)
emit_parts(chs, path, parts) ==
    chs \o [i \in 1..Len(parts) |->
              Chunk(HeadingPath(path, i), parts[i], estimate_tokens(parts[i]))]

\* a faulty variant: the overlap is put in before the small parts are merged
section_parts_overlap_first(text, c) ==
    merge_small_remainders(
        apply_overlap(split_large_text(text, c.max_tokens),
                      c.overlap_tokens, c.max_tokens, c.merge_overflow),
        c.min_tokens, c.max_tokens, c.merge_overflow)

\* split_large_text, then merge_small_remainders, then apply_overlap
section_parts(text, c) ==
    apply_overlap(
        merge_small_remainders(split_large_text(text, c.max_tokens),
                               c.min_tokens, c.max_tokens, c.merge_overflow),
        c.overlap_tokens, c.max_tokens, c.merge_overflow)

\* a faulty variant: a section of exactly max_tokens tokens goes through the splitter
emit_section_split_at_max(chs, hs, text, tokens, c) ==
    LET path == IF hs # <<>> THEN hs ELSE <<"Document">>
    IN  IF tokens >= c.max_tokens
        THEN emit_parts(chs, path, section_parts(text, c))
        ELSE Append(chs, Chunk(HeadingPath(path, 0), text, tokens))

\* flush() from the heading_path on: the chunks of a section that is kept
emit_section(chs, hs, text, tokens, c) ==
    LET path == IF hs # <<>> THEN hs ELSE <<"Document">>
    IN  IF tokens > c.max_tokens
        THEN emit_parts(chs, path, section_parts(text, c))
        ELSE Append(chs, Chunk(HeadingPath(path, 0), text, tokens))

\* a faulty variant: a section under min_tokens stays in the buffer for the next flush
flush_deferring(buf, chs, hs, c) ==
    IF buf = <<>> THEN [buffer |-> buf, chunks |-> chs]
    ELSE LET text == Strip(JoinSp(buf))
             tokens == estimate_tokens(text)
         IN  IF text = <<>> THEN [buffer |-> <<>>, chunks |-> chs]
             ELSE IF tokens < c.min_tokens THEN [buffer |-> buf, chunks |-> chs]
             ELSE [buffer |-> <<>>, chunks |-> emit_section(chs, hs, text, tokens, c)]

\* flush(): the buffer and the chunks it leaves
flush(buf, chs, hs, c) ==
    IF buf = <<>> THEN [buffer |-> buf, chunks |-> chs]
    ELSE LET text == Strip(JoinSp(buf))
             tokens == estimate_tokens(text)
         IN  IF text = <<>> THEN [buffer |-> <<>>, chunks |-> chs]
             ELSE IF tokens < c.min_tokens THEN [buffer |-> <<>>, chunks |-> chs]
             ELSE [buffer |-> <<>>, chunks |-> emit_section(chs, hs, text, tokens, c)]

\* a faulty variant: the label is overwritten, one label at a time
push_heading_overwrite(hs, heading_text) == <<heading_text>>

\* a faulty variant: a nested stack that is never popped
push_heading_nested(hs, heading_text) == Append(hs, heading_text)

\* heading_stack = heading_stack[:1] if heading_stack else []; append
push_heading(hs, heading_text) ==
    Append(IF hs # <<>> THEN SubSeq(hs, 1, 1) ELSE <<>>, heading_text)


\* ------------------------------------------------------------------ state
VARIABLES
    cfg,            \* the keyword arguments of the call
    pc,             \* where chunk_by_heading / extract_and_chunk stands
    doc,            \* the elements root.iter() has yielded so far (ghost)
    seen,           \* how many elements all the calls so far were given (ghost)
    heading_stack,  \* chunk_by_heading's heading_stack
    buffer,         \* chunk_by_heading's buffer
    chunks,         \* chunk_by_heading's chunks
    url,            \* extract_and_chunk's url, drawn when line 270 reads it
    xml,            \* what trafilatura.extract returned to extract_xml
    fn,             \* the function called directly ("idle": none yet)
    arg_text,       \* its text argument; for the classifier, what its request came to
    arg_parts,      \* its parts argument
    result,         \* what it returned
    sp              \* the locals of split_large_text when it is run step by step

vars == <<cfg, pc, doc, seen, heading_stack, buffer, chunks, url, xml, fn, arg_text, arg_parts, result, sp>>
walk_vars == <<pc, doc, seen, heading_stack, buffer, chunks, url, xml>>
call_vars == <<fn, arg_text, arg_parts, result>>

\* ----------------------------------------------------------------- inputs
SeqsUpTo(S, n) == UNION {[1..m -> S] : m \in 1..n}

\* the words ks as a text standing at place pos of the document
MkText(pos, ks) ==
    [i \in 1..Len(ks) |-> [id |-> <<pos, i>>, k |-> ks[i], n |-> Weight(ks[i])]]

\* text cut into consecutive pieces after the places in cuts
RECURSIVE CutAt(_, _, _, _)
CutAt(text, cuts, i, cur) ==
    IF i > Len(text) THEN (IF cur = <<>> THEN <<>> ELSE <<cur>>)
    ELSE IF i \in cuts
    THEN <<Append(cur, text[i])>> \o CutAt(text, cuts, i + 1, <<>>)
    ELSE CutAt(text, cuts, i + 1, Append(cur, text[i]))

Config(mx, mn, ov, mo) ==
    [max_tokens |-> mx, min_tokens |-> mn, overlap_tokens |-> ov, merge_overflow |-> mo]

NoConfig == Config(0, 0, 0, 0)

\* the locals of split_large_text: where it stands, what its loops have
\* still to go through, its buffers and its lists
Locals(level, paragraphs, sents, words, todo) ==
    [level |-> level, paragraphs |-> paragraphs, buffer |-> <<>>,
     sents |-> sents, sent_buf |-> <<>>, words |-> words, hard_buf |-> <<>>,
     chunks |-> <<>>, todo |-> todo, cleaned |-> <<>>]

NoSplit == Locals("unused", <<>>, <<>>, <<>>, <<>>)

\* --------------------------------------------- the functions called alone
InitFn ==
    /\ cfg = NoConfig
    /\ pc = "unused"
    /\ doc = <<>>
    /\ seen = 0
    /\ heading_stack = <<>>
    /\ buffer = <<>>
    /\ chunks = <<>>
    /\ url = "unread"
    /\ xml = "uncalled"
    /\ fn = "idle"
    /\ arg_text = <<>>
    /\ arg_parts = <<>>
    /\ result = <<>>
    /\ sp = NoSplit

CallSplit ==
    /\ fn = "idle"
    /\ \E ks \in SeqsUpTo(Vocabulary, MaxLen), mx \in -1..MaxBudget :
         /\ cfg' = Config(mx, 0, 0, 0)
         /\ arg_text' = MkText(0, ks)
         /\ arg_parts' = <<>>
         /\ result' = split_large_text(MkText(0, ks), mx)
    /\ fn' = "split_large_text"
    /\ UNCHANGED <<walk_vars, sp>>

\* the parts are the pieces of a text, after an empty part or not
CallMerge ==
    /\ fn = "idle"
    /\ \E ks \in SeqsUpTo(Words, MaxLen), mx \in 1..MaxBudget,
          mn \in 0..MaxBudget, mo \in 0..MaxOverflow :
         \E cuts \in SUBSET (1..(Len(ks) - 1)), blank \in {<<>>, <<<<>>>>} :
            /\ cfg' = Config(mx, mn, 0, mo)
            /\ arg_text' = <<>>
            /\ arg_parts' = blank \o CutAt(MkText(0, ks), cuts, 1, <<>>)
            /\ result' = merge_small_remainders(
                              blank \o CutAt(MkText(0, ks), cuts, 1, <<>>), mn, mx, mo)
    /\ fn' = "merge_small_remainders"
    /\ UNCHANGED <<walk_vars, sp>>

CallOverlap ==
    /\ fn = "idle"
    /\ \E ks \in SeqsUpTo(Words, MaxLen), mx \in 1..MaxBudget,
          ov \in -1..MaxBudget, mo \in 0..MaxOverflow :
         \E cuts \in SUBSET (1..(Len(ks) - 1)) :
            /\ cfg' = Config(mx, 0, ov, mo)
            /\ arg_text' = <<>>
            /\ arg_parts' = CutAt(MkText(0, ks), cuts, 1, <<>>)
            /\ result' = apply_overlap(CutAt(MkText(0, ks), cuts, 1, <<>>), ov, mx, mo)
    /\ fn' = "apply_overlap"
    /\ UNCHANGED <<walk_vars, sp>>

\* ------------------------------------------ detect_scenario_with_groq
\* utils.py and chunking.py hold the same list
OPIOID_SCENARIO_TYPES ==
    << "opioid_overdose_response",
       "opioid_initiation_and_prescribing",
       "opioid_tapering_and_withdrawal_management",
       "opioid_use_disorder_screening_and_referral",
       "opioid_chronic_pain_management_and_monitoring",
       "general_opioid_information" >>

\* The reply of the model is a string outside the source.  It is kept as a
\* sequence of pieces: a label of the list, written in lower case or not,
\* some other words, or white space.
Piece(s, upper) == [s |-> s, upper |-> upper]

Pieces ==
    {Piece(OPIOID_SCENARIO_TYPES[i], u) : i \in 1..Len(OPIOID_SCENARIO_TYPES),
                                          u \in BOOLEAN}
        \cup {Piece("the answer is", FALSE), Piece(" ", FALSE)}

Replies == {<<>>} \cup SeqsUpTo(Pieces, MaxReply)

\* what the request can come to: it raises, its content is None, or it is a string
Outcomes ==
    {[kind |-> "raises", content |-> <<>>], [kind |-> "None", content |-> <<>>]}
        \cup {[kind |-> "str", content |-> r] : r \in Replies}

\* str.strip() and str.lower() on a reply
RECURSIVE strip(_)
strip(r) ==
    IF r = <<>> THEN r
    ELSE IF Head(r).s = " " THEN strip(Tail(r))
    ELSE IF r[Len(r)].s = " " THEN strip(SubSeq(r, 1, Len(r) - 1))
    ELSE r

lower(r) == [i \in 1..Len(r) |-> Piece(r[i].s, FALSE)]

\* scenario_type in detected_scenario: the label is a substring
Contains(r, label) == \E i \in 1..Len(r) : r[i] = Piece(label, FALSE)

\* for scenario_type in OPIOID_SCENARIO_TYPES: if scenario_type in
\* detected_scenario: return scenario_type; after the loop the default
RECURSIVE partial_match(_, _)
partial_match(detected_scenario, i) ==
    IF i > Len(OPIOID_SCENARIO_TYPES) THEN "general_opioid_information"
    ELSE IF Contains(detected_scenario, OPIOID_SCENARIO_TYPES[i])
    THEN OPIOID_SCENARIO_TYPES[i]
    ELSE partial_match(detected_scenario, i + 1)

\* detected_scenario in OPIOID_SCENARIO_TYPES
Listed(detected_scenario) ==
    /\ Len(detected_scenario) = 1
    /\ \E i \in 1..Len(OPIOID_SCENARIO_TYPES) :
          detected_scenario = <<Piece(OPIOID_SCENARIO_TYPES[i], FALSE)>>

\* a faulty variant: no handler, the error of the request leaves the function
detect_scenario_with_groq_unguarded(outcome) ==
    IF outcome.kind = "raises" THEN "raise APIError"
    ELSE IF outcome.kind = "None" THEN "raise AttributeError"
    ELSE LET detected_scenario == lower(strip(outcome.content))
         IN  IF Listed(detected_scenario) THEN detected_scenario[1].s
             ELSE partial_match(detected_scenario, 1)

\* utils.py: a raise of the request, and the AttributeError of None.strip(),
\* end in the except branch
detect_scenario_with_groq(outcome) ==
    IF outcome.kind \in {"raises", "None"} THEN "general_opioid_information"
    ELSE LET detected_scenario == lower(strip(outcome.content))
         IN  IF Listed(detected_scenario) THEN detected_scenario[1].s
             ELSE partial_match(detected_scenario, 1)

\* chunking.py: the same without the partial match
chunking_detect_scenario_with_groq(outcome) ==
    IF outcome.kind \in {"raises", "None"} THEN "general_opioid_information"
    ELSE LET detected_scenario == lower(strip(outcome.content))
         IN  IF Listed(detected_scenario) THEN detected_scenario[1].s
             ELSE "general_opioid_information"

CallDetect ==
    /\ fn = "idle"
    /\ \E outcome \in Outcomes :
         /\ arg_text' = outcome
         /\ result' = detect_scenario_with_groq(outcome)
    /\ fn' = "utils.detect_scenario_with_groq"
    /\ UNCHANGED <<cfg, arg_parts, walk_vars, sp>>

CallChunkingDetect ==
    /\ fn = "idle"
    /\ \E outcome \in Outcomes :
         /\ arg_text' = outcome
         /\ result' = chunking_detect_scenario_with_groq(outcome)
    /\ fn' = "chunking.detect_scenario_with_groq"
    /\ UNCHANGED <<cfg, arg_parts, walk_vars, sp>>

NextFn == CallSplit \/ CallMerge \/ CallOverlap \/ CallDetect \/ CallChunkingDetect

SpecFn == InitFn /\ [][NextFn]_vars

\* ------------------------------------ split_large_text, one iteration a step
\* a faulty variant: the loop stays on the unit it has just handled
same(units) == units

\* "for x in xs": what the loop has still to go through after one iteration
rest(units) == Tail(units)

InitSplit ==
    /\ \E ks \in SeqsUpTo(Vocabulary, MaxLen), mx \in -1..MaxBudget :
         /\ cfg = Config(mx, 0, 0, 0)
         /\ arg_text = MkText(0, ks)
    /\ pc = "unused"
    /\ doc = <<>>
    /\ seen = 0
    /\ heading_stack = <<>>
    /\ buffer = <<>>
    /\ chunks = <<>>
    /\ url = "unread"
    /\ xml = "uncalled"
    /\ fn = "split_large_text, stepwise"
    /\ arg_parts = <<>>
    /\ result = <<>>
    /\ sp = Locals("entry", <<>>, <<>>, <<>>, <<>>)

\* lines 40-60: the empty text returns at once, else the paragraphs
Enter ==
    /\ sp.level = "entry"
    /\ LET t == Strip(arg_text)
           ps == StripAll(SplitNewline(t, <<>>))
       IN  sp' = IF t = <<>> THEN Locals("done", <<>>, <<>>, <<>>, <<>>)
                 ELSE Locals("paragraphs", IF ps = <<>> THEN <<t>> ELSE ps,
                             <<>>, <<>>, <<>>)
    /\ UNCHANGED <<cfg, walk_vars, call_vars>>

\* one iteration of "for p in paragraphs", or its end (lines 62-101)
ParagraphStep ==
    /\ sp.level = "paragraphs"
    /\ IF sp.paragraphs = <<>>
       THEN LET out == IF sp.buffer # <<>> THEN flush_buffer(sp.chunks, sp.buffer)
                       ELSE sp.chunks
            IN  sp' = [sp EXCEPT !.level = "verify", !.chunks = out, !.todo = out]
       ELSE LET p == Head(sp.paragraphs)
                b1 == Append(sp.buffer, p)
                flushed == IF sp.buffer # <<>> THEN flush_buffer(sp.chunks, sp.buffer)
                           ELSE sp.chunks
            IN  sp' = IF estimate_tokens(JoinSp(b1)) > cfg.max_tokens
                      THEN IF estimate_tokens(p) > cfg.max_tokens
                           THEN [sp EXCEPT !.level = "sentences",
                                           !.paragraphs = rest(sp.paragraphs),
                                           !.buffer = <<>>,
                                           !.chunks = flushed,
                                           !.sents = split_into_sentences(p),
                                           !.sent_buf = <<>>]
                           ELSE [sp EXCEPT !.paragraphs = rest(sp.paragraphs),
                                           !.buffer = <<p>>,
                                           !.chunks = flushed]
                      ELSE [sp EXCEPT !.paragraphs = rest(sp.paragraphs),
                                      !.buffer = b1]
    /\ UNCHANGED <<cfg, walk_vars, call_vars>>

\* one iteration of "for s in split_into_sentences(p)", or its end (lines 70-96)
SentenceStep ==
    /\ sp.level = "sentences"
    /\ IF sp.sents = <<>>
       THEN sp' = [sp EXCEPT !.level = "paragraphs",
                             !.buffer = <<>>,
                             !.chunks = IF sp.sent_buf # <<>>
                                        THEN flush_buffer(sp.chunks, sp.sent_buf)
                                        ELSE sp.chunks]
       ELSE LET s == Head(sp.sents)
                b1 == Append(sp.sent_buf, s)
                flushed == IF sp.sent_buf # <<>>
                           THEN flush_buffer(sp.chunks, sp.sent_buf)
                           ELSE sp.chunks
            IN  sp' = IF estimate_tokens(JoinSp(b1)) > cfg.max_tokens
                      THEN IF estimate_tokens(s) > cfg.max_tokens
                           THEN [sp EXCEPT !.level = "words",
                                           !.sents = rest(sp.sents),
                                           !.sent_buf = <<s>>,
                                           !.chunks = flushed,
                                           !.words = SplitWords(s),
                                           !.hard_buf = <<>>]
                           ELSE [sp EXCEPT !.sents = rest(sp.sents),
                                           !.sent_buf = <<s>>,
                                           !.chunks = flushed]
                      ELSE [sp EXCEPT !.sents = rest(sp.sents), !.sent_buf = b1]
    /\ UNCHANGED <<cfg, walk_vars, call_vars>>

\* one iteration of "for w in words", or its end (lines 81-92)
WordStep ==
    /\ sp.level = "words"
    /\ IF sp.words = <<>>
       THEN sp' = [sp EXCEPT !.level = "sentences",
                             !.sent_buf = <<>>,
                             !.chunks = IF sp.hard_buf # <<>>
                                        THEN flush_buffer(sp.chunks, sp.hard_buf)
                                        ELSE sp.chunks]
       ELSE LET st == HardStep([buf |-> sp.hard_buf, chunks |-> sp.chunks],
                               Head(sp.words), cfg.max_tokens)
            IN  sp' = [sp EXCEPT !.words = rest(sp.words),
                                 !.hard_buf = st.buf,
                                 !.chunks = st.chunks]
    /\ UNCHANGED <<cfg, walk_vars, call_vars>>

\* one iteration of "for c in chunks", or its end and the return (lines 103-121)
VerifyStep ==
    /\ sp.level = "verify"
    /\ IF sp.todo = <<>>
       THEN /\ sp' = [sp EXCEPT !.level = "done"]
            /\ result' = sp.cleaned
       ELSE /\ LET c == Strip(Head(sp.todo))
               IN  sp' = IF c = <<>> THEN [sp EXCEPT !.todo = rest(sp.todo)]
                         ELSE IF estimate_tokens(c) <= cfg.max_tokens
                         THEN [sp EXCEPT !.todo = rest(sp.todo),
                                         !.cleaned = Append(sp.cleaned, c)]
                         ELSE [sp EXCEPT !.level = "verify words",
                                         !.todo = rest(sp.todo),
                                         !.words = SplitWords(c),
                                         !.hard_buf = <<>>]
            /\ UNCHANGED result
    /\ UNCHANGED <<cfg, walk_vars, fn, arg_text, arg_parts>>

\* one iteration of the word loop of the last pass, or its end (lines 110-120)
VerifyWordStep ==
    /\ sp.level = "verify words"
    /\ IF sp.words = <<>>
       THEN sp' = [sp EXCEPT !.level = "verify",
                             !.cleaned = IF sp.hard_buf # <<>>
                                         THEN flush_buffer(sp.cleaned, sp.hard_buf)
                                         ELSE sp.cleaned]
       ELSE LET st == HardStep([buf |-> sp.hard_buf, chunks |-> sp.cleaned],
                               Head(sp.words), cfg.max_tokens)
            IN  sp' = [sp EXCEPT !.words = rest(sp.words),
                                 !.hard_buf = st.buf,
                                 !.cleaned = st.chunks]
    /\ UNCHANGED <<cfg, walk_vars, call_vars>>

NextSplit ==
    Enter \/ ParagraphStep \/ SentenceStep \/ WordStep \/ VerifyStep \/ VerifyWordStep

\* the interpreter goes on as long as the function has a step to take
SpecSplit == InitSplit /\ [][NextSplit]_vars /\ WF_vars(NextSplit)

\* ------------------------------------------------------ chunk_by_heading
\* the heading texts and the paragraph texts a tree is made of
Labels == {"A", "B"}
ParaTexts == {<<"a">>, <<"b.", "a">>, <<"a", "\n", "ccc">>}
Blank == {<<>>, <<"\n">>}

Configs ==
    {Config(mx, mn, ov, mo) : mx \in 1..MaxBudget, mn \in 0..MaxBudget,
                              ov \in 0..MaxBudget, mo \in 0..MaxOverflow}

\* the url arguments: the default None and a page address
Urls == {"None", "https://a.example/page"}

\* a faulty variant: the heading context outlives the call, as a module-level list would
call_locals_kept(hs, buf, chs) == [heading_stack |-> hs, buffer |-> <<>>, chunks |-> <<>>]

\* the locals chunk_by_heading binds at every call (lines 194-196)
call_locals(hs, buf, chs) == [heading_stack |-> <<>>, buffer |-> <<>>, chunks |-> <<>>]

Init ==
    /\ cfg \in Configs
    /\ pc = "extract"
    /\ doc = <<>>
    /\ seen = 0
    /\ heading_stack = <<>>
    /\ buffer = <<>>
    /\ chunks = <<>>
    /\ url = "unread"
    /\ xml = "uncalled"
    /\ fn = "idle"
    /\ arg_text = <<>>
    /\ arg_parts = <<>>
    /\ result = <<>>
    /\ sp = NoSplit

\* the elements that count: doc keeps the headings and the contents
HeadElem(label) == [tag |-> "head", label |-> label, text |-> <<>>]
TextElem(text) == [tag |-> "p", label |-> "", text |-> text]

\* The html, trafilatura.extract and etree.fromstring are outside the model,
\* so each of their outcomes is open: no xml, a string that is not
\* well-formed XML, a tree.
\* extract_xml: trafilatura.extract returned nothing, "if not xml: raise"
ExtractFails ==
    /\ pc = "extract"
    /\ xml' = "None"
    /\ pc' = "ValueError"
    /\ UNCHANGED <<cfg, doc, seen, heading_stack, buffer, chunks, url, call_vars, sp>>

\* extract_xml returned an xml string
Extracted ==
    /\ pc = "extract"
    /\ xml' \in {"malformed", "well-formed"}
    /\ pc' = "parse"
    /\ UNCHANGED <<cfg, doc, seen, heading_stack, buffer, chunks, url, call_vars, sp>>

\* a faulty variant: a string that does not parse gives the empty list
ParseFailsQuietly ==
    /\ pc = "parse"
    /\ xml = "malformed"
    /\ pc' = "returned"
    /\ UNCHANGED <<cfg, doc, seen, heading_stack, buffer, chunks, url, xml, call_vars, sp>>

\* etree.fromstring raised on a string that is not well-formed XML; nothing
\* in chunk_by_heading or extract_and_chunk catches it
ParseFails ==
    /\ pc = "parse"
    /\ xml = "malformed"
    /\ pc' = "XMLSyntaxError"
    /\ UNCHANGED <<cfg, doc, seen, heading_stack, buffer, chunks, url, xml, call_vars, sp>>

\* etree.fromstring returned the root; the locals are bound
Parsed ==
    /\ pc = "parse"
    /\ xml = "well-formed"
    /\ pc' = "iter"
    /\ LET l == call_locals(heading_stack, buffer, chunks)
       IN  /\ heading_stack' = l.heading_stack
           /\ buffer' = l.buffer
           /\ chunks' = l.chunks
    /\ UNCHANGED <<cfg, doc, seen, url, xml, call_vars, sp>>

\* a faulty variant: the label changes first, the flush comes after
HeadingLabelFirst ==
    /\ pc = "iter"
    /\ seen < MaxElems
    /\ seen' = seen + 1
    /\ \E label \in Labels :
         LET f == flush(buffer, chunks, push_heading(heading_stack, label), cfg)
         IN  /\ buffer' = f.buffer
             /\ chunks' = f.chunks
             /\ heading_stack' = push_heading(heading_stack, label)
             /\ doc' = Append(doc, HeadElem(label))
    /\ UNCHANGED <<cfg, pc, url, xml, call_vars, sp>>

\* tag == "head" and elem.text and elem.text.strip()
Heading ==
    /\ pc = "iter"
    /\ seen < MaxElems
    /\ seen' = seen + 1
    /\ LET f == flush(buffer, chunks, heading_stack, cfg)
       IN  /\ buffer' = f.buffer
           /\ chunks' = f.chunks
    /\ \E label \in Labels :
         /\ heading_stack' = push_heading(heading_stack, label)
         /\ doc' = Append(doc, HeadElem(label))
    /\ UNCHANGED <<cfg, pc, url, xml, call_vars, sp>>

\* tag in {"p", "item"} and elem.text and elem.text.strip()
Content ==
    /\ pc = "iter"
    /\ seen < MaxElems
    /\ seen' = seen + 1
    /\ \E tag \in {"p", "item"}, ks \in ParaTexts :
         LET text == Strip(MkText(Len(doc) + 1, ks))
         IN  /\ buffer' = Append(buffer, text)
             /\ doc' = Append(doc, TextElem(text))
    /\ UNCHANGED <<cfg, pc, heading_stack, chunks, url, xml, call_vars, sp>>

\* any other element: another tag, or a head, p or item whose text is
\* missing or blank
Ignored ==
    /\ pc = "iter"
    /\ {e \in {"head", "p", "item", "other"} \X (Blank \cup ParaTexts) :
            e[1] = "other" \/ Strip(MkText(0, e[2])) = <<>>} # {}
    /\ UNCHANGED vars

\* the loop is over: the last flush, and the return
Return ==
    /\ pc = "iter"
    /\ LET f == flush(buffer, chunks, heading_stack, cfg)
       IN  /\ buffer' = f.buffer
           /\ chunks' = f.chunks
    /\ pc' = "returned"
    /\ UNCHANGED <<cfg, doc, seen, heading_stack, url, xml, call_vars, sp>>

\* for i, chunk in enumerate(chunks): chunk["chunk_id"] = f"chunk_{i}";
\* chunk["source_url"] = url.  The id is kept as the pair of its two pieces.
with_id_from_one(chs, u) ==
    [i \in 1..Len(chs) |->
        [heading_path |-> chs[i].heading_path, text |-> chs[i].text,
         tokens |-> chs[i].tokens, chunk_id |-> <<"chunk_", i>>, source_url |-> u]]

with_id(chs, u) ==
    [i \in 1..Len(chs) |->
        [heading_path |-> chs[i].heading_path, text |-> chs[i].text,
         tokens |-> chs[i].tokens, chunk_id |-> <<"chunk_", i - 1>>, source_url |-> u]]

AssignIds ==
    /\ pc = "returned"
    /\ \E u \in Urls :
         /\ url' = u
         /\ chunks' = with_id(chunks, u)
    /\ pc' = "identified"
    /\ UNCHANGED <<cfg, doc, seen, heading_stack, buffer, xml, call_vars, sp>>

\* the call has returned; the caller's loop (main.py, "for config in
\* configs") makes the next call, whose locals are its own.  An exception
\* is caught nowhere and ends the program.
NextCall ==
    /\ pc = "identified"
    /\ pc' = "extract"
    /\ doc' = <<>>
    /\ url' = "unread"
    /\ xml' = "uncalled"
    /\ LET l == call_locals(heading_stack, buffer, chunks)
       IN  /\ heading_stack' = l.heading_stack
           /\ buffer' = l.buffer
           /\ chunks' = l.chunks
    /\ UNCHANGED <<cfg, seen, call_vars, sp>>

Next ==
    \/ ExtractFails \/ Extracted \/ ParseFails \/ Parsed
    \/ Heading \/ Content \/ Ignored \/ Return
    \/ AssignIds \/ NextCall

Spec == Init /\ [][Next]_vars


\* ------------------------------------------------------- claims: helpers
\* the number of tokens of a text, counted word by word
RECURSIVE TokenCount(_)
TokenCount(text) == IF text = <<>> THEN 0 ELSE Head(text).n + TokenCount(Tail(text))

SoftMax == cfg.max_tokens + cfg.merge_overflow

IsSuffix(a, b) == Len(a) <= Len(b) /\ a = SubSeq(b, Len(b) - Len(a) + 1, Len(b))

\* the tokens of p are the last tokens of t
IsTokenSuffix(p, t) == IsSuffix(encode(p), encode(t))

\* one whole word of more than max_tokens tokens
OversizedWord(a) == ~IsSpace(a) /\ a.n > cfg.max_tokens

\* what apply_overlap put before part i
OverlapPrefix(i) == SubSeq(result[i], 1, Len(result[i]) - Len(arg_parts[i]))

EndsWithPart(i) == IsSuffix(arg_parts[i], result[i])

OverlapCase ==
    fn = "apply_overlap" /\ Len(arg_parts) >= 2 /\ cfg.overlap_tokens > 0

\* ------------------------------------------------------------------- C2
\* C2 as claimed: every element of merge_small_remainders' output has at
\* least min_tokens tokens, or is the only element of the output.
C2_FloorAsClaimed ==
    fn = "merge_small_remainders" =>
        \A i \in 1..Len(result) :
            TokenCount(result[i]) >= cfg.min_tokens \/ Len(result) = 1

\* C2 amended: every element of merge_small_remainders' output has at least
\* min_tokens tokens, or is the first element, or could not be merged: joined
\* to the element before it, it exceeds max_tokens + merge_overflow.
C2_Floor ==
    fn = "merge_small_remainders" =>
        \A i \in 1..Len(result) :
            \/ TokenCount(result[i]) >= cfg.min_tokens
            \/ i = 1
            \/ TokenCount(result[i - 1] \o result[i]) > SoftMax

C2_Witness ==
    /\ fn = "merge_small_remainders"
    /\ Len(result) >= 2
    /\ Len(result) < Len(arg_parts)
    /\ \A i \in 1..Len(arg_parts) : arg_parts[i] # <<>>
    /\ \E i \in 2..Len(result) : TokenCount(result[i]) < cfg.min_tokens

\* ------------------------------------------------------------------- C3
\* C3 as claimed: after apply_overlap on two or more parts with
\* overlap_tokens > 0, every output part but the first starts with a
\* non-empty prefix taken from the trailing tokens of its predecessor.
C3_PrefixAsClaimed ==
    OverlapCase =>
        \A i \in 2..Len(result) :
            /\ EndsWithPart(i)
            /\ OverlapPrefix(i) # <<>>
            /\ IsTokenSuffix(OverlapPrefix(i), result[i - 1])

\* C3 amended: every output part but the first starts with a non-empty
\* prefix taken from the trailing tokens of its predecessor, unless the
\* current part with one more token would exceed max_tokens +
\* merge_overflow; then it is the current part, without overlap.
C3_Prefix ==
    OverlapCase =>
        \A i \in 2..Len(result) :
            IF TokenCount(arg_parts[i]) < SoftMax
            THEN /\ EndsWithPart(i)
                 /\ OverlapPrefix(i) # <<>>
                 /\ IsTokenSuffix(OverlapPrefix(i), result[i - 1])
            ELSE result[i] = arg_parts[i]

\* a part that sits at the soft ceiling, and a part the search fitted
C3_Witness ==
    /\ OverlapCase
    /\ \E i \in 2..Len(result) : TokenCount(arg_parts[i]) = SoftMax
    /\ \E i \in 2..Len(result) :
          /\ OverlapPrefix(i) # <<>>
          /\ TokenCount(OverlapPrefix(i)) < cfg.overlap_tokens
          /\ TokenCount(result[i - 1]) >= cfg.overlap_tokens

\* ------------------------------------------------------------------- C4
\* C4 as claimed: the overlap put before part i is a token suffix of part
\* i-1's text before overlap, of at most overlap_tokens tokens.
C4_SuffixAsClaimed ==
    OverlapCase =>
        \A i \in 2..Len(result) :
            /\ EndsWithPart(i)
            /\ IsTokenSuffix(OverlapPrefix(i), arg_parts[i - 1])
            /\ TokenCount(OverlapPrefix(i)) <= cfg.overlap_tokens

\* C4 amended: the overlap put before part i is a token suffix of part
\* i-1's text after overlap, of at most overlap_tokens tokens; it lies
\* within part i-1's text before overlap whenever that text has at least as
\* many tokens as the overlap.
C4_Suffix ==
    OverlapCase =>
        \A i \in 2..Len(result) :
            /\ EndsWithPart(i)
            /\ IsTokenSuffix(OverlapPrefix(i), result[i - 1])
            /\ TokenCount(OverlapPrefix(i)) <= cfg.overlap_tokens
            /\ TokenCount(arg_parts[i - 1]) >= TokenCount(OverlapPrefix(i))
                 => IsTokenSuffix(OverlapPrefix(i), arg_parts[i - 1])

\* the overlap of part i reaches back into the overlap part i-1 received
C4_Witness ==
    /\ OverlapCase
    /\ \E i \in 3..Len(result) :
          /\ TokenCount(arg_parts[i - 1]) < cfg.overlap_tokens
          /\ TokenCount(OverlapPrefix(i)) > TokenCount(arg_parts[i - 1])

\* ------------------------------------------------------------------- C8
\* C8: every fragment split_large_text returns has at most max_tokens
\* tokens, unless it is exactly one word of more than max_tokens tokens; no
\* word is split (every word of a fragment is a whole word of the text).
C8_SplitBudget ==
    fn = "split_large_text" =>
        \A i \in 1..Len(result) :
            /\ \/ TokenCount(result[i]) <= cfg.max_tokens
               \/ Len(result[i]) = 1 /\ OversizedWord(result[i][1])
            /\ \A j \in 1..Len(result[i]) :
                  \E m \in 1..Len(arg_text) : result[i][j] = arg_text[m]

\* a text split at the word level, one of whose words is over the budget
C8_Witness ==
    /\ fn = "split_large_text"
    /\ Len(result) >= 3
    /\ \E i \in 1..Len(result) : Len(result[i]) = 1 /\ OversizedWord(result[i][1])
    /\ \E i \in 1..Len(result) : Len(result[i]) >= 2

\* ------------------------------------------- claims: the tree and its sections
IsHead(i) == doc[i].tag = "head"
IsContent(i) == doc[i].tag = "p"

\* the first elements of the sections: a content after a heading, or first
SecFirsts == {i \in 1..Len(doc) : IsContent(i) /\ (i = 1 \/ IsHead(i - 1))}

SecLast(i0) ==
    CHOOSE j \in i0..Len(doc) :
        /\ \A m \in i0..j : IsContent(m)
        /\ j = Len(doc) \/ IsHead(j + 1)

\* flush() has run on the section: a heading followed it, or the loop ended
Returned == pc \in {"returned", "identified"}
SecClosed(i0) == SecLast(i0) < Len(doc) \/ Returned

RECURSIVE SecText(_, _)
SecText(i, j) == IF i > j THEN <<>> ELSE doc[i].text \o SecText(i + 1, j)

\* the labels of the headings before element i, in document order
RECURSIVE HeadsBefore(_)
HeadsBefore(i) ==
    IF i <= 1 THEN <<>>
    ELSE HeadsBefore(i - 1) \o (IF IsHead(i - 1) THEN <<doc[i - 1].label>> ELSE <<>>)

\* the elements a text has words of, and the element of its last word
ElemsOf(text) == {text[m].id[1] : m \in 1..Len(text)}
LastElem(text) == text[Len(text)].id[1]

ChunksOf(i0) ==
    {n \in 1..Len(chunks) : ElemsOf(chunks[n].text) \cap (i0..SecLast(i0)) # {}}

Before(a, b) == a[1] < b[1] \/ (a[1] = b[1] /\ a[2] < b[2])

\* ------------------------------------------------------------------- C1
\* C1: every chunk of chunk_by_heading that holds no word of more than
\* max_tokens tokens has at most max_tokens + merge_overflow tokens.
C1_Budget ==
    \A n \in 1..Len(chunks) :
        (\A m \in 1..Len(chunks[n].text) : ~OversizedWord(chunks[n].text[m]))
            => TokenCount(chunks[n].text) <= SoftMax

\* a chunk that carries overlap and sits at the soft ceiling, above max_tokens
C1_Witness ==
    \E n \in 2..Len(chunks) :
        /\ chunks[n].heading_path.part >= 2
        /\ chunks[n].text[1] = chunks[n - 1].text[Len(chunks[n - 1].text)]
        /\ \A m \in 1..Len(chunks[n].text) : ~OversizedWord(chunks[n].text[m])
        /\ TokenCount(chunks[n].text) = SoftMax
        /\ cfg.merge_overflow > 0

\* ------------------------------------------------------------------- C5
\* C5 as claimed: a chunk's heading_path is the text of the most recent
\* heading before its content, or "Document" when there is none.
C5_LatestHeadingAsClaimed ==
    \A n \in 1..Len(chunks) :
        LET hs == HeadsBefore(LastElem(chunks[n].text))
        IN  chunks[n].heading_path.path =
                IF hs = <<>> THEN <<"Document">> ELSE <<hs[Len(hs)]>>

\* C5 amended: a chunk's heading_path is "Document" when no heading comes
\* before its content, the heading's text when one does, and otherwise the
\* first heading of the document and the most recent one, joined by " > ":
\* a heading replaces the latest label, the first label is kept.
C5_FirstAndLatestHeading ==
    \A n \in 1..Len(chunks) :
        LET hs == HeadsBefore(LastElem(chunks[n].text))
        IN  chunks[n].heading_path.path =
                IF hs = <<>> THEN <<"Document">>
                ELSE IF Len(hs) = 1 THEN <<hs[1]>>
                ELSE <<hs[1], hs[Len(hs)]>>

\* a chunk whose content comes after two headings of different texts
C5_Witness ==
    \E n \in 1..Len(chunks) :
        LET hs == HeadsBefore(LastElem(chunks[n].text))
        IN  Len(hs) >= 2 /\ hs[1] # hs[Len(hs)]

\* ------------------------------------------------------------------- C6
\* C6: a section of fewer than min_tokens tokens produces no chunk and is
\* not deferred: the buffer is empty after every flush, and no word of the
\* dropped section is in any chunk or left in the buffer.
C6_DroppedNotDeferred ==
    /\ (Returned \/ (doc # <<>> /\ IsHead(Len(doc)))) => buffer = <<>>
    /\ \A i0 \in SecFirsts :
          (SecClosed(i0) /\ TokenCount(SecText(i0, SecLast(i0))) < cfg.min_tokens)
              => /\ ChunksOf(i0) = {}
                 /\ \A b \in 1..Len(buffer) :
                       ElemsOf(buffer[b]) \cap (i0..SecLast(i0)) = {}

\* a dropped section, and after it a section that gave a chunk
C6_Witness ==
    \E i0 \in SecFirsts :
        /\ SecClosed(i0)
        /\ TokenCount(SecText(i0, SecLast(i0))) < cfg.min_tokens
        /\ \E n \in 1..Len(chunks) : LastElem(chunks[n].text) > SecLast(i0)

\* ------------------------------------------------------------------- C7
\* C7: the count stored with a chunk is the number of tokens of its final
\* text, on the single-chunk path and on the split, merge and overlap path.
C7_StoredTokens ==
    \A n \in 1..Len(chunks) : chunks[n].tokens = TokenCount(chunks[n].text)

\* a single chunk, and a part that carries overlap
C7_Witness ==
    /\ \E n \in 1..Len(chunks) : chunks[n].heading_path.part = 0
    /\ \E n \in 2..Len(chunks) :
          /\ chunks[n].heading_path.part >= 2
          /\ chunks[n].text[1].id = chunks[n - 1].text[Len(chunks[n - 1].text)].id
          /\ chunks[n].tokens > Len(chunks[n].text)

\* ------------------------------------------------------------------- C9
\* C9: chunk order is document order: the last words of the chunks stand in
\* the document in the order of the chunks, and the words of a chunk stand
\* in the chunk in the order of the document.
C9_DocumentOrder ==
    /\ \A n \in 2..Len(chunks) :
          Before(chunks[n - 1].text[Len(chunks[n - 1].text)].id,
                 chunks[n].text[Len(chunks[n].text)].id)
    /\ \A n \in 1..Len(chunks) : \A m \in 2..Len(chunks[n].text) :
          Before(chunks[n].text[m - 1].id, chunks[n].text[m].id)

\* two sections gave chunks, one of them several
C9_Witness ==
    /\ Len(chunks) >= 3
    /\ \E n \in 2..Len(chunks) : chunks[n].heading_path.part >= 2
    /\ \E n \in 2..Len(chunks) :
          ElemsOf(chunks[n].text) \cap ElemsOf(chunks[n - 1].text) = {}

\* ------------------------------------------------------------------ C10
\* C10: a section of t tokens, min_tokens <= t <= max_tokens, gives exactly
\* one chunk: its text is the paragraphs joined by spaces, its heading_path
\* has no part suffix, its count is t.
C10_SingleChunk ==
    \A i0 \in SecFirsts :
        LET text == SecText(i0, SecLast(i0))
            t == TokenCount(text)
        IN  (SecClosed(i0) /\ cfg.min_tokens <= t /\ t <= cfg.max_tokens)
                => /\ Cardinality(ChunksOf(i0)) = 1
                   /\ \A n \in ChunksOf(i0) :
                         /\ chunks[n].text = text
                         /\ chunks[n].heading_path.part = 0
                         /\ chunks[n].tokens = t

\* a section of several paragraphs and exactly max_tokens tokens
C10_Witness ==
    \E i0 \in SecFirsts :
        /\ SecClosed(i0)
        /\ SecLast(i0) > i0
        /\ TokenCount(SecText(i0, SecLast(i0))) = cfg.max_tokens
        /\ cfg.min_tokens > 0
        /\ cfg.min_tokens <= cfg.max_tokens
        /\ ChunksOf(i0) # {}

\* ------------------------------------------------------------------ C11
\* when chunk_by_heading returns: the chunks of the section that starts at
\* i0 are the fragments that
\* split_large_text, merge_small_remainders and apply_overlap, in this order,
\* make of its text: one chunk per fragment, next to each other in the chunk
\* list, the j-th of them labelled "(part j)"
SplitMergeOverlap(i0) ==
    LET parts ==
            apply_overlap(
                merge_small_remainders(
                    split_large_text(SecText(i0, SecLast(i0)), cfg.max_tokens),
                    cfg.min_tokens, cfg.max_tokens, cfg.merge_overflow),
                cfg.overlap_tokens, cfg.max_tokens, cfg.merge_overflow)
        ns == ChunksOf(i0)
        n == Cardinality(ns)
        first == CHOOSE m \in ns : \A m2 \in ns : m <= m2
    IN  /\ ns # {}
        /\ ns = first..(first + n - 1)
        /\ [j \in 1..n |-> chunks[first + j - 1].text] = parts
        /\ \A j \in 1..n : chunks[first + j - 1].heading_path.part = j

\* C11 as claimed: a section of more than max_tokens tokens is processed by
\* split, merge and overlap in this order and gives one chunk per final
\* fragment, the j-th of n labelled "(part j)", j = 1..n.
C11_PartsAsClaimed ==
    pc = "returned" =>
        \A i0 \in SecFirsts :
            TokenCount(SecText(i0, SecLast(i0))) > cfg.max_tokens
                => SplitMergeOverlap(i0)

\* C11 amended: a section of more than max_tokens tokens and of at least
\* min_tokens tokens is processed by split, merge and overlap in this order
\* and gives one chunk per final fragment, the j-th of n labelled "(part j)",
\* j = 1..n.  (Under min_tokens the section is dropped before the split.)
C11_Parts ==
    pc = "returned" =>
        \A i0 \in SecFirsts :
            LET t == TokenCount(SecText(i0, SecLast(i0)))
            IN  (t > cfg.max_tokens /\ t >= cfg.min_tokens) => SplitMergeOverlap(i0)

\* a section that gave several parts, fewer than the splitter made (a merge),
\* one of them starting with the last word of the part before it (overlap)
C11_Witness ==
    \E i0 \in SecFirsts :
        /\ pc = "returned"
        /\ Cardinality(ChunksOf(i0)) >= 2
        /\ Cardinality(ChunksOf(i0)) <
              Len(split_large_text(SecText(i0, SecLast(i0)), cfg.max_tokens))
        /\ \E n \in ChunksOf(i0) :
              /\ chunks[n].heading_path.part >= 2
              /\ chunks[n].text[1].id = chunks[n - 1].text[Len(chunks[n - 1].text)].id

\* ------------------------------------------------------------------ C12
\* C12: when extract_and_chunk has returned, the chunk at 0-based position i
\* has chunk_id "chunk_i", so the ids are distinct and consecutive from 0,
\* and every chunk's source_url is the url of the call; before the last
\* flush has run no chunk has an id.
C12_Ids ==
    /\ pc = "identified" =>
          /\ buffer = <<>>
          /\ \A n \in 1..Len(chunks) :
                /\ chunks[n].chunk_id = <<"chunk_", n - 1>>
                /\ chunks[n].source_url = url
          /\ \A n, m \in 1..Len(chunks) :
                n # m => chunks[n].chunk_id # chunks[m].chunk_id
    /\ pc \in {"iter", "returned"} =>
          \A n \in 1..Len(chunks) : "chunk_id" \notin DOMAIN chunks[n]

\* a returned list of three chunks or more, from two sections, with a url
C12_Witness ==
    /\ pc = "identified"
    /\ url # "None"
    /\ Len(chunks) >= 3
    /\ \E n \in 2..Len(chunks) :
          ElemsOf(chunks[n].text) \cap ElemsOf(chunks[n - 1].text) = {}

\* ------------------------------------------------------------------ C13
\* the tree has no heading or paragraph content that was kept in a section
NoContent == \A i \in 1..Len(doc) : ~IsContent(i)

Raised == pc \in {"ValueError", "XMLSyntaxError"}

\* C13 as claimed: when the extraction yields no tree, when the XML does not
\* parse and when the tree has no heading or paragraph content, the chunker
\* returns an empty chunk sequence and never an error.
C13_EmptyAsClaimed ==
    /\ ~Raised
    /\ (Returned /\ NoContent) => chunks = <<>>

\* C13 amended: a tree without paragraph or item content gives an empty
\* chunk sequence and no error; an extraction that yields no xml ends
\* extract_and_chunk with a ValueError, and a string that does not parse ends
\* chunk_by_heading with the parser's error: neither returns a sequence.
C13_EmptyOrRaised ==
    /\ (Returned /\ NoContent) => chunks = <<>>
    /\ Returned => xml = "well-formed"
    /\ xml = "None" => pc = "ValueError"
    /\ xml = "malformed" => pc \in {"parse", "XMLSyntaxError"}
    /\ Raised => chunks = <<>> /\ doc = <<>>

\* a tree of headings only has been walked to the end
C13_Witness ==
    /\ Returned
    /\ NoContent
    /\ Len(doc) >= 2

\* ------------------------------------------------------------------ C15
\* chunk_by_heading as a function of the tree and the configuration alone:
\* the locals after the elements d[i..], walked from the locals st
NoLocals == [heading_stack |-> <<>>, buffer |-> <<>>, chunks |-> <<>>]

AfterElement(st, elem) ==
    IF elem.tag = "head"
    THEN LET f == flush(st.buffer, st.chunks, st.heading_stack, cfg)
         IN  [heading_stack |-> push_heading(st.heading_stack, elem.label),
              buffer |-> f.buffer, chunks |-> f.chunks]
    ELSE [st EXCEPT !.buffer = Append(st.buffer, elem.text)]

RECURSIVE WalkFrom(_, _, _)
WalkFrom(d, i, st) ==
    IF i > Len(d) THEN st ELSE WalkFrom(d, i + 1, AfterElement(st, d[i]))

ChunksAlone(d) ==
    LET st == WalkFrom(d, 1, NoLocals)
    IN  flush(st.buffer, st.chunks, st.heading_stack, cfg).chunks

WithoutId(chs) ==
    [n \in 1..Len(chs) |->
        [heading_path |-> chs[n].heading_path, text |-> chs[n].text,
         tokens |-> chs[n].tokens]]

\* an earlier call has been given elements
LaterCall == seen > Len(doc)

\* C15: chunking is deterministic and independent across documents: in the
\* first call and in every later one, the buffer, the heading context and
\* the chunk list start empty, the chunks chunk_by_heading returns are those
\* the tree and the configuration give when chunked alone, and so are the
\* locals all along a call that comes after another.
C15_Independent ==
    /\ pc \in {"extract", "parse"} =>
          heading_stack = <<>> /\ buffer = <<>> /\ chunks = <<>>
    /\ (pc = "iter" /\ LaterCall) =>
          [heading_stack |-> heading_stack, buffer |-> buffer, chunks |-> chunks]
              = WalkFrom(doc, 1, NoLocals)
    /\ pc = "returned" => chunks = ChunksAlone(doc)
    /\ (pc = "identified" /\ LaterCall) => WithoutId(chunks) = ChunksAlone(doc)

\* a later call has returned, and a chunk of it is labelled with the first
\* heading of its own tree
C15_Witness ==
    /\ Returned
    /\ LaterCall
    /\ chunks # <<>>
    /\ doc[1].tag = "head"
    /\ \E n \in 1..Len(chunks) : chunks[n].heading_path.path = <<doc[1].label>>

\* ------------------------------------------------------------------ C20
\* the label flush() gives under the heading context hs
LabelOf(hs) == IF hs # <<>> THEN hs ELSE <<"Document">>

\* the elements the texts of a buffer come from
BufferElems(buf) == UNION {ElemsOf(buf[b]) : b \in 1..Len(buf)}

\* the step appended chunks, all of them made of the paragraphs buffered
\* before the step and labelled with the heading context before the step
FlushedUnderOldLabel ==
    /\ buffer' = <<>>
    /\ Len(chunks') >= Len(chunks)
    /\ SubSeq(chunks', 1, Len(chunks)) = chunks
    /\ \A n \in (Len(chunks) + 1)..Len(chunks') :
          /\ chunks'[n].heading_path.path = LabelOf(heading_stack)
          /\ ElemsOf(chunks'[n].text) \subseteq BufferElems(buffer)

\* one step of the walk
WalkerStep ==
    /\ (pc = "iter" /\ pc' = "iter" /\ Len(doc') > Len(doc)) =>
          IF doc'[Len(doc')].tag = "head"
          THEN /\ FlushedUnderOldLabel
               /\ heading_stack'[Len(heading_stack')] = doc'[Len(doc')].label
          ELSE /\ chunks' = chunks
               /\ heading_stack' = heading_stack
               /\ buffer' = Append(buffer, doc'[Len(doc')].text)
    /\ (pc = "iter" /\ pc' = "iter" /\ doc' = doc) =>
          UNCHANGED <<heading_stack, buffer, chunks>>
    /\ (pc = "iter" /\ pc' = "returned") =>
          FlushedUnderOldLabel /\ heading_stack' = heading_stack

\* no chunk holds text from both sides of a heading, and none is labelled
\* with a heading that stands after its content
WithinOneSection ==
    \A n \in 1..Len(chunks) :
        LET es == ElemsOf(chunks[n].text)
            hs == HeadsBefore(LastElem(chunks[n].text))
            path == chunks[n].heading_path.path
        IN  /\ \A i \in 1..Len(doc) :
                  (IsHead(i) /\ \E lo \in es : lo < i) => \A hi \in es : hi < i
            /\ IF hs = <<>> THEN path = <<"Document">>
               ELSE path[Len(path)] = hs[Len(hs)]

\* C20: each head element with non-empty text flushes the buffered
\* paragraphs under the label active before it and only then changes the
\* label; the end of the traversal flushes the last buffer; no chunk is
\* labelled with a heading that comes after its content, no chunk (overlap
\* included) holds text from both sides of a heading; any other element
\* neither flushes nor changes the label.
C20_Boundaries == [][WalkerStep]_vars /\ []WithinOneSection

\* a section of several overlapping parts, then a heading, then a section
\* that gave a chunk under the new label
C20_Witness ==
    \E n \in 2..(Len(chunks) - 1) :
        /\ cfg.overlap_tokens > 0
        /\ chunks[n].heading_path.part >= 2
        /\ chunks[n].text[1].id = chunks[n - 1].text[Len(chunks[n - 1].text)].id
        /\ chunks[n + 1].heading_path.path # chunks[n].heading_path.path

\* ------------------------------------------------------------------ C17
\* the rule of the claim, part by part from the left: out is the output so
\* far, the parts from the i-th on are still to come
RECURSIVE MergeRule(_, _)
MergeRule(out, i) ==
    IF i > Len(arg_parts) THEN out
    ELSE LET part == arg_parts[i]
         IN  IF part = <<>> THEN MergeRule(out, i + 1)
             ELSE IF out = <<>> THEN MergeRule(<<part>>, i + 1)
             ELSE IF /\ TokenCount(part) < cfg.min_tokens
                     /\ TokenCount(out[Len(out)]) + TokenCount(part) <= SoftMax
             THEN MergeRule([out EXCEPT ![Len(out)] = out[Len(out)] \o part], i + 1)
             ELSE MergeRule(Append(out, part), i + 1)

\* C17: merge_small_remainders makes one pass from the left: the first
\* non-empty part is emitted as it is; a later part is joined to the last
\* output element exactly when it has fewer than min_tokens tokens and the
\* joined count is at most max_tokens + merge_overflow; otherwise it starts
\* a new output element.
C17_MergeRule ==
    fn = "merge_small_remainders" => result = MergeRule(<<>>, 1)

\* after an empty part: a small part was joined, and a small part that would
\* have passed the ceiling started an element of its own
C17_Witness ==
    /\ fn = "merge_small_remainders"
    /\ arg_parts[1] = <<>>
    /\ \E i \in 1..Len(result) :
          Len(result[i]) >= 2 /\ result[i][Len(result[i])].n < cfg.min_tokens
    /\ \E i \in 2..Len(result) :
          /\ TokenCount(result[i]) < cfg.min_tokens
          /\ TokenCount(result[i - 1]) + TokenCount(result[i]) > SoftMax

\* ------------------------------------------------------------------ C18
\* the candidate for output part i with k tokens of overlap:
\* trailing_slice(previous output part, k) + current part
CandidateWith(i, k) ==
    WithOverlap(Strip(last_n_tokens(result[i - 1], k)), arg_parts[i])

Fits(i, k) == TokenCount(CandidateWith(i, k)) <= SoftMax

\* the full candidate of part i exceeds the soft ceiling
Overfull(i) == ~Fits(i, cfg.overlap_tokens)

LargestFit(i, k) ==
    /\ k \in 0..cfg.overlap_tokens
    /\ Fits(i, k)
    /\ \A k2 \in (k + 1)..cfg.overlap_tokens : ~Fits(i, k2)

\* C18 as claimed: when the full candidate exceeds the soft ceiling, the
\* emitted part is trailing_slice(previous output part, k) + current part for
\* the largest k in [0, overlap_tokens] that fits; the candidate with k = 0
\* always fits, so the fallback is never taken because no k fits.
C18_LargestFitAsClaimed ==
    OverlapCase =>
        \A i \in 2..Len(result) :
            Overfull(i) =>
                /\ Fits(i, 0)
                /\ \E k \in 0..cfg.overlap_tokens :
                      LargestFit(i, k) /\ result[i] = CandidateWith(i, k)

\* C18 amended: when the full candidate exceeds the soft ceiling, the emitted
\* part is trailing_slice(previous output part, k) + current part for the
\* largest k in [0, overlap_tokens] that fits; when the current part alone
\* exceeds the ceiling no k fits, not even k = 0, and the fallback emits the
\* current part as it is.
C18_LargestFit ==
    OverlapCase =>
        \A i \in 2..Len(result) :
            Overfull(i) =>
                IF Fits(i, 0)
                THEN \E k \in 0..cfg.overlap_tokens :
                        LargestFit(i, k) /\ result[i] = CandidateWith(i, k)
                ELSE /\ \A k \in 0..cfg.overlap_tokens : ~Fits(i, k)
                     /\ TokenCount(arg_parts[i]) > SoftMax
                     /\ result[i] = arg_parts[i]

\* one part got a shortened overlap, another one is over the ceiling alone
C18_Witness ==
    /\ OverlapCase
    /\ \E i \in 2..Len(result) :
          /\ Overfull(i)
          /\ \E k \in 1..(cfg.overlap_tokens - 1) :
                LargestFit(i, k) /\ TokenCount(result[i - 1]) > k
    /\ \E i \in 2..Len(result) : Overfull(i) /\ ~Fits(i, 0)

\* ------------------------------------------------------------------ C19
\* C19: apply_overlap only prepends: with overlap_tokens <= 0 or fewer than
\* two parts it returns its input unchanged; otherwise it returns as many
\* parts as it was given, the first one equal to the first input part, and
\* every output part i ends with input part i.
C19_OnlyPrepends ==
    fn = "apply_overlap" =>
        IF cfg.overlap_tokens <= 0 \/ Len(arg_parts) < 2
        THEN result = arg_parts
        ELSE /\ Len(result) = Len(arg_parts)
             /\ result[1] = arg_parts[1]
             /\ \A i \in 1..Len(result) :
                   /\ Len(result[i]) >= Len(arg_parts[i])
                   /\ \A m \in 1..Len(arg_parts[i]) :
                         result[i][Len(result[i]) - Len(arg_parts[i]) + m]
                             = arg_parts[i][m]

\* three parts or more: one got an overlap before it, one got none
C19_Witness ==
    /\ fn = "apply_overlap"
    /\ cfg.overlap_tokens > 0
    /\ Len(arg_parts) >= 3
    /\ \E i \in 2..Len(result) : Len(result[i]) > Len(arg_parts[i])
    /\ \E i \in 2..Len(result) : result[i] = arg_parts[i]

\* ------------------------------------------------------------------ C16
Detecting ==
    fn \in {"utils.detect_scenario_with_groq", "chunking.detect_scenario_with_groq"}

ScenarioTypes == {OPIOID_SCENARIO_TYPES[i] : i \in 1..Len(OPIOID_SCENARIO_TYPES)}

\* the reply names a label, in whatever case and among whatever else
NamesLabel(reply) == \E i \in 1..Len(reply) : reply[i].s \in ScenarioTypes

\* C16: detect_scenario_with_groq always returns a label of
\* OPIOID_SCENARIO_TYPES; when the request raises, or when the reply matches
\* no label, it returns "general_opioid_information" and no error leaves it.
C16_AlwaysALabel ==
    Detecting =>
        /\ result \in ScenarioTypes
        /\ (arg_text.kind # "str" \/ ~NamesLabel(arg_text.content))
              => result = "general_opioid_information"

\* the request raised; or a reply of words that name no label
C16_Witness ==
    /\ Detecting
    /\ \/ arg_text.kind = "raises"
       \/ /\ arg_text.kind = "str"
          /\ Len(arg_text.content) = MaxReply
          /\ ~NamesLabel(arg_text.content)

\* ------------------------------------------------------------------ C14
\* how far split_large_text is from its return: the pass it is in, then for
\* each loop it is inside, from the outermost in, what the loop has still to
\* go through
Rank ==
    LET phase == CASE sp.level = "entry" -> 3
                   [] sp.level \in {"paragraphs", "sentences", "words"} -> 2
                   [] sp.level \in {"verify", "verify words"} -> 1
                   [] OTHER -> 0
        in_sentences == IF sp.level \in {"sentences", "words"} THEN 1 ELSE 0
        in_words == IF sp.level \in {"words", "verify words"} THEN 1 ELSE 0
    IN  IF phase = 2
        THEN <<phase, Len(sp.paragraphs), in_sentences,
               IF in_sentences = 1 THEN Len(sp.sents) ELSE 0, in_words,
               IF in_words = 1 THEN Len(sp.words) ELSE 0>>
        ELSE IF phase = 1
        THEN <<phase, Len(sp.todo), 0, 0, in_words,
               IF in_words = 1 THEN Len(sp.words) ELSE 0>>
        ELSE <<phase, 0, 0, 0, 0, 0>>

\* a is before b in the lexicographic order
LexLess(a, b) ==
    \E i \in 1..Len(a) : a[i] < b[i] /\ \A j \in 1..(i - 1) : a[j] = b[j]

\* the loops split_large_text is inside of
Depth ==
    CASE sp.level \in {"paragraphs", "verify"} -> 1
      [] sp.level \in {"sentences", "verify words"} -> 2
      [] sp.level = "words" -> 3
      [] OTHER -> 0

\* every step takes one unit from the loop it is in or leaves the loop, and
\* never goes back from the last pass to the cascade
Consumes == LexLess(Rank', Rank) /\ Depth' <= 3

\* C14: split_large_text terminates for every finite text and every
\* max_tokens, zero, negative and smaller than a word included: it is never
\* more than three loops deep, every iteration of every loop takes one unit
\* (paragraph, sentence, word, chunk) from what the loop has to go through,
\* and the last pass does not go back into the cascade.
C14_Terminates == <>(sp.level = "done") /\ [][Consumes]_vars

\* a call with max_tokens <= 0 has returned three parts or more, and what it
\* returned is what split_large_text as a whole gives
C14_Witness ==
    /\ sp.level = "done"
    /\ cfg.max_tokens <= 0
    /\ Len(result) >= 3
    /\ result = split_large_text(arg_text, cfg.max_tokens)

\* step by step or as a whole, the same list
StepwiseAgrees ==
    sp.level = "done" => result = split_large_text(arg_text, cfg.max_tokens)

\* ------------------------------------------------------------------ C21
\* the whitespace-delimited words of a text, in order
RECURSIVE WordsOf(_)
WordsOf(text) ==
    IF text = <<>> THEN <<>>
    ELSE (IF Head(text).k = "\n" THEN <<>> ELSE <<Head(text)>>) \o WordsOf(Tail(text))

\* the fragments of a list put one after the other
RECURSIVE Concat(_)
Concat(parts) == IF parts = <<>> THEN <<>> ELSE Head(parts) \o Concat(Tail(parts))

\* C21: splitting and merging lose and duplicate nothing: the words of the
\* fragments of split_large_text, read in order, are the words of the input
\* text, for every max_tokens; merge_small_remainders keeps the words of its
\* parts read in order; so the fragments of a text after the split and the
\* merge hold the words of the text, each once and in order.
C21_WordsKept ==
    /\ fn = "split_large_text" =>
          /\ WordsOf(Concat(result)) = WordsOf(arg_text)
          /\ \A mn \in 0..MaxBudget, mo \in 0..MaxOverflow :
                WordsOf(Concat(merge_small_remainders(result, mn, cfg.max_tokens, mo)))
                    = WordsOf(arg_text)
    /\ fn = "merge_small_remainders" =>
          WordsOf(Concat(result)) = WordsOf(Concat(arg_parts))

\* a text of two paragraphs with a word of more than max_tokens tokens came
\* back in several fragments, one of them of several words
C21_Witness ==
    /\ fn = "split_large_text"
    /\ \E m \in 2..(Len(arg_text) - 1) :
          /\ arg_text[m].k = "\n"
          /\ arg_text[m - 1].k # "\n"
          /\ arg_text[m + 1].k # "\n"
    /\ \E m \in 1..Len(arg_text) :
          arg_text[m].k # "\n" /\ arg_text[m].n > cfg.max_tokens
    /\ Len(WordsOf(arg_text)) >= 3
    /\ Len(result) >= 2
    /\ \E i \in 1..Len(result) : Len(result[i]) >= 2

====
